---- MODULE Spec2Model ----
(***************************************************************************)
(* CardioGenie intake conversation: the session state machine of           *)
(* backend/main.py (process_patient_message and the handlers it calls),    *)
(* the keyword generator, the follow-up sequencer and the completion       *)
(* predicate.                                                              *)
(*                                                                         *)
(* Python strings are sequences of one-character strings, so that          *)
(* str.lower(), str.strip() and the substring test `kw in text` are        *)
(* computed, not assumed.  An Optional value is <<>> (None) or <<v>>.      *)
(***************************************************************************)
EXTENDS Integers, Sequences, FiniteSets, TLC

\* ------------------------------------------------------------------------
\* Python values
\* ------------------------------------------------------------------------
None == <<>>

Some(v) == <<v>>

\* bool(x) of an Optional[str]: None and "" are falsy
TruthyStr(o) == o # None /\ o[1] # ""

\* bool(x) of an Optional[int]: None and 0 are falsy
TruthyInt(o) == o # None /\ o[1] # 0

\* bool(x) of an Optional[text], the text being a sequence of characters
TruthyText(o) == o # None /\ Len(o[1]) > 0

\* ------------------------------------------------------------------------
\* str.lower(), str.strip(), `needle in haystack`
\* ------------------------------------------------------------------------
UpperCase == <<"A", "B", "C", "D", "E", "F", "G", "H", "I", "J", "K", "L", "M",
               "N", "O", "P", "Q", "R", "S", "T", "U", "V", "W", "X", "Y", "Z">>

LowerCase == <<"a", "b", "c", "d", "e", "f", "g", "h", "i", "j", "k", "l", "m",
               "n", "o", "p", "q", "r", "s", "t", "u", "v", "w", "x", "y", "z">>

\* the lower-case letter of each upper-case letter
LowerMap ==
    [c \in {UpperCase[i] : i \in 1..Len(UpperCase)} |->
        LowerCase[CHOOSE i \in 1..Len(UpperCase) : UpperCase[i] = c]]

LowerChar(c) == IF c \in DOMAIN LowerMap THEN LowerMap[c] ELSE c

lower(s) == [i \in 1..Len(s) |-> LowerChar(s[i])]

Whitespace == {" ", "\t", "\n", "\r"}

strip(s) ==
    LET keep == {i \in 1..Len(s) : s[i] \notin Whitespace}
    IN  IF keep = {} THEN <<>>
        ELSE LET first == CHOOSE i \in keep : \A j \in keep : i <= j
                 last  == CHOOSE i \in keep : \A j \in keep : j <= i
             IN  SubSeq(s, first, last)

\* Python's `needle in haystack` on strings
contains(haystack, needle) ==
    \E i \in 0..(Len(haystack) - Len(needle)) :
        \A j \in 1..Len(needle) : haystack[i + j] = needle[j]

\* ------------------------------------------------------------------------
\* Configuration
\* ------------------------------------------------------------------------
MAX_FOLLOW_UP_QUESTIONS == 2

\* Bound of the model: a session takes no further message once the summary
\* dispatch has been invoked this many times.
MaxDispatch == 2

\* ------------------------------------------------------------------------
\* The medical dataset file (config.MEDICAL_DATASET_PATH), read on every use
\* ------------------------------------------------------------------------
ChestPainName == <<"C", "h", "e", "s", "t", " ", "P", "a", "i", "n", " ", "/", " ",
                   "D", "i", "s", "c", "o", "m", "f", "o", "r", "t">>

DyspneaName == <<"S", "h", "o", "r", "t", "n", "e", "s", "s", " ", "o", "f", " ",
                 "B", "r", "e", "a", "t", "h", " ", "(", "D", "y", "s", "p", "n", "e", "a", ")">>

FatigueName == <<"F", "a", "t", "i", "g", "u", "e">>

\* A readable dataset of three records: five sequencer questions, one
\* sequencer question, and none (its only questions are red flags).
DatasetFull ==
    [readable |-> TRUE,
     items |-> <<
       [symptom |-> ChestPainName,
        follow_up_questions |->
          [symptom_details |-> <<"cp_details_1", "cp_details_2", "cp_details_3">>,
           vital_signs     |-> <<"cp_vitals_1">>,
           medical_history |-> <<"cp_history_1">>,
           red_flags       |-> <<"cp_redflag_1">>]],
       [symptom |-> DyspneaName,
        follow_up_questions |->
          [symptom_details |-> <<"sob_details_1">>]],
       [symptom |-> FatigueName,
        follow_up_questions |->
          [red_flags |-> <<"fat_redflag_1">>]] >>]

\* open() or json.loads() raises
DatasetUnreadable == [readable |-> FALSE, items |-> <<>>]

\* the states of the file at config.MEDICAL_DATASET_PATH
DatasetFiles == {"full", "unreadable"}

\* with open(config.MEDICAL_DATASET_PATH) ... json.loads(f.read())
read_dataset(file) == IF file = "full" THEN DatasetFull ELSE DatasetUnreadable

\* ------------------------------------------------------------------------
\* Inbound messages (all pass the `if patient_message.strip()` guard)
\* ------------------------------------------------------------------------
MsgHi == <<"H", "i">>

MsgChestPain == <<" ", "c", "h", "e", "s", "t", " ", "p", "a", "i", "n", " ">>

MsgTired == <<"T", "i", "r", "e", "d">>

MsgDyspneaChest == <<"d", "y", "s", "p", "n", "e", "a", ",", " ",
                     "C", "h", "e", "s", "t", " ", "h", "u", "r", "t">>

MsgDyspnea == <<"d", "y", "s", "p", "n", "e", "a">>

Messages == {MsgHi, MsgChestPain, MsgTired, MsgDyspneaChest, MsgDyspnea}

\* ------------------------------------------------------------------------
\* The extraction delegate: a language model, any JSON object may come back
\* ------------------------------------------------------------------------
ExtractorOutputs ==
    [name   : {None, Some(""), Some("Jane"), Some("John")},
     email  : {None, Some("jane@x.com"), Some("john@x.com")},
     age    : {None, Some(0), Some(30), Some(41)},
     gender : {None, Some("Female"), Some("Male")}]

\* `return {}`: nothing found, or the delegate failed
EmptyExtract == [name |-> None, email |-> None, age |-> None, gender |-> None]

\* ------------------------------------------------------------------------
\* PatientSession
\* ------------------------------------------------------------------------
NewPatientSession ==
    [name |-> None, email |-> None, age |-> None, gender |-> None,
     symptoms |-> <<>>, responses |-> <<>>, phase |-> "basic_info",
     current_symptom |-> None, current_question_index |-> 0]

PhaseRank(ph) ==
    CASE ph = "basic_info" -> 0
      [] ph = "symptoms"   -> 1
      [] ph = "follow_up"  -> 2
      [] ph = "completed"  -> 3

Range(seq) == {seq[i] : i \in 1..Len(seq)}

\* ------------------------------------------------------------------------
\* process_basic_info
\* ------------------------------------------------------------------------
\* the local list symptom_keywords of process_basic_info
basic_info_symptom_keywords ==
    <<<<"p", "a", "i", "n">>,
      <<"c", "h", "e", "s", "t">>,
      <<"h", "e", "a", "r", "t">>,
      <<"b", "r", "e", "a", "t", "h">>,
      <<"d", "i", "z", "z", "y">>,
      <<"t", "i", "r", "e", "d">>,
      <<"f", "a", "t", "i", "g", "u", "e">>,
      <<"p", "a", "l", "p", "i", "t", "a", "t", "i", "o", "n">>,
      <<"p", "r", "e", "s", "s", "u", "r", "e">>>>

mentions_symptoms(message) ==
    LET message_lower == lower(message)
    IN  \E i \in 1..Len(basic_info_symptom_keywords) :
            contains(message_lower, basic_info_symptom_keywords[i])

\* sum([has_name, has_email, has_age, has_gender])
info_count(patient) ==
    (IF TruthyStr(patient.name) THEN 1 ELSE 0)
    + (IF TruthyStr(patient.email) THEN 1 ELSE 0)
    + (IF TruthyInt(patient.age) THEN 1 ELSE 0)
    + (IF TruthyStr(patient.gender) THEN 1 ELSE 0)

\* update_patient_data without the `not patient.<field>` guards
update_patient_data_overwriting(patient, extracted_info) ==
    [patient EXCEPT
       !.name   = IF TruthyStr(extracted_info.name) THEN extracted_info.name ELSE @,
       !.email  = IF TruthyStr(extracted_info.email) THEN extracted_info.email ELSE @,
       !.age    = IF TruthyInt(extracted_info.age) THEN extracted_info.age ELSE @,
       !.gender = IF TruthyStr(extracted_info.gender) THEN extracted_info.gender ELSE @]

\* the four guarded assignments "Update patient data"
update_patient_data(patient, extracted_info) ==
    [patient EXCEPT
       !.name   = IF TruthyStr(extracted_info.name) /\ ~TruthyStr(patient.name)
                  THEN extracted_info.name ELSE @,
       !.email  = IF TruthyStr(extracted_info.email) /\ ~TruthyStr(patient.email)
                  THEN extracted_info.email ELSE @,
       !.age    = IF TruthyInt(extracted_info.age) /\ ~TruthyInt(patient.age)
                  THEN extracted_info.age ELSE @,
       !.gender = IF TruthyStr(extracted_info.gender) /\ ~TruthyStr(patient.gender)
                  THEN extracted_info.gender ELSE @]

\* moves_to_symptoms without its third condition (name + email and a symptom)
moves_to_symptoms_three_fields(patient, message) ==
    \/ info_count(patient) >= 4
    \/ info_count(patient) >= 3 /\ mentions_symptoms(message)

\* the condition of "Move to symptoms phase if"
moves_to_symptoms(patient, message) ==
    \/ info_count(patient) >= 4
    \/ info_count(patient) >= 3 /\ mentions_symptoms(message)
    \/ TruthyStr(patient.name) /\ TruthyStr(patient.email) /\ mentions_symptoms(message)

process_basic_info(patient, message, extracted_info) ==
    LET updated == update_patient_data(patient, extracted_info)
    IN  IF moves_to_symptoms(updated, message)
        THEN [updated EXCEPT !.phase = "symptoms"]
        ELSE updated

\* ------------------------------------------------------------------------
\* generate_symptom_keywords
\* ------------------------------------------------------------------------
\* the if/elif chain "Add common variations": trigger phrase and synonyms
KeywordVariations == <<
    [phrase |-> <<"c", "h", "e", "s", "t", " ", "p", "a", "i", "n">>,
     keywords |-> <<<<"c", "h", "e", "s", "t", " ", "p", "a", "i", "n">>,
                   <<"c", "h", "e", "s", "t", " ", "h", "u", "r", "t">>,
                   <<"c", "h", "e", "s", "t", " ", "d", "i", "s", "c", "o", "m", "f", "o", "r", "t">>,
                   <<"h", "e", "a", "r", "t", " ", "p", "a", "i", "n">>>>],
    [phrase |-> <<"s", "h", "o", "r", "t", "n", "e", "s", "s", " ", "o", "f", " ", "b", "r", "e", "a", "t", "h">>,
     keywords |-> <<<<"s", "h", "o", "r", "t", " ", "o", "f", " ", "b", "r", "e", "a", "t", "h">>,
                   <<"d", "i", "f", "f", "i", "c", "u", "l", "t", "y", " ", "b", "r", "e", "a", "t", "h", "i", "n", "g">>,
                   <<"b", "r", "e", "a", "t", "h", "l", "e", "s", "s">>,
                   <<"d", "y", "s", "p", "n", "e", "a">>>>],
    [phrase |-> <<"p", "a", "l", "p", "i", "t", "a", "t", "i", "o", "n">>,
     keywords |-> <<<<"h", "e", "a", "r", "t", " ", "r", "a", "c", "i", "n", "g">>,
                   <<"i", "r", "r", "e", "g", "u", "l", "a", "r", " ", "h", "e", "a", "r", "t", "b", "e", "a", "t">>,
                   <<"p", "a", "l", "p", "i", "t", "a", "t", "i", "o", "n">>,
                   <<"h", "e", "a", "r", "t", " ", "f", "l", "u", "t", "t", "e", "r">>>>],
    [phrase |-> <<"f", "a", "t", "i", "g", "u", "e">>,
     keywords |-> <<<<"t", "i", "r", "e", "d">>,
                   <<"e", "x", "h", "a", "u", "s", "t", "e", "d">>,
                   <<"w", "e", "a", "k", "n", "e", "s", "s">>,
                   <<"f", "a", "t", "i", "g", "u", "e">>>>],
    [phrase |-> <<"d", "i", "z", "z", "i", "n", "e", "s", "s">>,
     keywords |-> <<<<"d", "i", "z", "z", "y">>,
                   <<"l", "i", "g", "h", "t", "h", "e", "a", "d", "e", "d">>,
                   <<"f", "a", "i", "n", "t">>,
                   <<"v", "e", "r", "t", "i", "g", "o">>>>] >>

\* keywords = [symptom] + the variations of the first phrase found in symptom
keywords_for(symptom) ==
    LET hits == {i \in 1..Len(KeywordVariations) :
                    contains(symptom, KeywordVariations[i].phrase)}
    IN  IF hits = {} THEN <<symptom>>
        ELSE LET first == CHOOSE i \in hits : \A j \in hits : i <= j
             IN  <<symptom>> \o KeywordVariations[first].keywords

\* the except branch "Fallback keywords"
FallbackSymptomKeywords == <<
    [symptom  |-> <<"c", "h", "e", "s", "t", " ", "p", "a", "i", "n", " ", "/", " ", "d", "i", "s", "c", "o", "m", "f", "o", "r", "t">>,
     keywords |-> <<<<"c", "h", "e", "s", "t", " ", "p", "a", "i", "n">>,
                   <<"c", "h", "e", "s", "t", " ", "h", "u", "r", "t">>,
                   <<"c", "h", "e", "s", "t", " ", "d", "i", "s", "c", "o", "m", "f", "o", "r", "t">>,
                   <<"h", "e", "a", "r", "t", " ", "p", "a", "i", "n">>>>],
    [symptom  |-> <<"s", "h", "o", "r", "t", "n", "e", "s", "s", " ", "o", "f", " ", "b", "r", "e", "a", "t", "h", " ", "(", "d", "y", "s", "p", "n", "e", "a", ")">>,
     keywords |-> <<<<"s", "h", "o", "r", "t", " ", "o", "f", " ", "b", "r", "e", "a", "t", "h">>,
                   <<"d", "i", "f", "f", "i", "c", "u", "l", "t", "y", " ", "b", "r", "e", "a", "t", "h", "i", "n", "g">>,
                   <<"b", "r", "e", "a", "t", "h", "l", "e", "s", "s">>,
                   <<"d", "y", "s", "p", "n", "e", "a">>>>] >>

\* generate_symptom_keywords without its except branch's dict: an unreadable
\* dataset gives no keywords
generate_symptom_keywords_no_fallback(medical_dataset) ==
    IF ~medical_dataset.readable THEN <<>>
    ELSE LET items == medical_dataset.items
             firsts == {i \in 1..Len(items) :
                          \A j \in 1..(i - 1) : lower(items[j].symptom) # lower(items[i].symptom)}
             F[i \in 0..Len(items)] ==
                 IF i = 0 THEN <<>>
                 ELSE IF i \in firsts
                      THEN Append(F[i - 1],
                                  [symptom  |-> lower(items[i].symptom),
                                   keywords |-> keywords_for(lower(items[i].symptom))])
                      ELSE F[i - 1]
         IN  F[Len(items)]

\* The dict symptom -> keywords as the sequence of its items in iteration
\* order: a key keeps the position of its first insertion.
generate_symptom_keywords(medical_dataset) ==
    IF ~medical_dataset.readable THEN FallbackSymptomKeywords
    ELSE LET items == medical_dataset.items
             firsts == {i \in 1..Len(items) :
                          \A j \in 1..(i - 1) : lower(items[j].symptom) # lower(items[i].symptom)}
             F[i \in 0..Len(items)] ==
                 IF i = 0 THEN <<>>
                 ELSE IF i \in firsts
                      THEN Append(F[i - 1],
                                  [symptom  |-> lower(items[i].symptom),
                                   keywords |-> keywords_for(lower(items[i].symptom))])
                      ELSE F[i - 1]
         IN  F[Len(items)]

\* ------------------------------------------------------------------------
\* process_symptoms
\* ------------------------------------------------------------------------
\* any(keyword in message_lower for keyword in keywords)
matches(message_lower, keywords) ==
    \E i \in 1..Len(keywords) : contains(message_lower, keywords[i])

\* detected_symptoms, in the iteration order of symptom_keywords
detect_symptoms(medical_dataset, message) ==
    LET symptom_keywords == generate_symptom_keywords(medical_dataset)
        message_lower == lower(message)
        F[i \in 0..Len(symptom_keywords)] ==
            IF i = 0 THEN <<>>
            ELSE IF matches(message_lower, symptom_keywords[i].keywords)
                 THEN Append(F[i - 1], symptom_keywords[i].symptom)
                 ELSE F[i - 1]
    IN  F[Len(symptom_keywords)]

\* the lists without repetition over the elements of S
Orderings(S) ==
    {f \in [1..Cardinality(S) -> S] : \A i, j \in 1..Cardinality(S) : f[i] = f[j] => i = j}

\* list(set(patient.symptoms + detected_symptoms)): the distinct entries, in
\* the order the set happens to iterate in (string hashing decides it)
deduplicated(patient, medical_dataset, message) ==
    Orderings(Range(patient.symptoms) \cup Range(detect_symptoms(medical_dataset, message)))

\* process_symptoms interviewing the last detected symptom, not the first
process_symptoms_last_detected(patient, medical_dataset, message, order) ==
    LET detected_symptoms == detect_symptoms(medical_dataset, message)
    IN  IF Len(detected_symptoms) > 0
        THEN [patient EXCEPT !.symptoms = order,
                             !.phase = "follow_up",
                             !.current_symptom =
                                 Some(detected_symptoms[Len(detected_symptoms)]),
                             !.current_question_index = 0]
        ELSE patient

\* process_symptoms entering follow-up without recording the detected symptoms
process_symptoms_not_recording(patient, medical_dataset, message, order) ==
    LET detected_symptoms == detect_symptoms(medical_dataset, message)
    IN  IF Len(detected_symptoms) > 0
        THEN [patient EXCEPT !.phase = "follow_up",
                             !.current_symptom = Some(detected_symptoms[1]),
                             !.current_question_index = 0]
        ELSE patient

\* process_symptoms entering follow_up without assigning current_symptom
process_symptoms_no_current_symptom(patient, medical_dataset, message, order) ==
    LET detected_symptoms == detect_symptoms(medical_dataset, message)
    IN  IF Len(detected_symptoms) > 0
        THEN [patient EXCEPT !.symptoms = order,
                             !.phase = "follow_up",
                             !.current_question_index = 0]
        ELSE patient

\* order: the outcome of list(set(...)), one of deduplicated(...)
process_symptoms(patient, medical_dataset, message, order) ==
    LET detected_symptoms == detect_symptoms(medical_dataset, message)
    IN  IF Len(detected_symptoms) > 0
        THEN [patient EXCEPT !.symptoms = order,
                             !.phase = "follow_up",
                             !.current_symptom = Some(detected_symptoms[1]),
                             !.current_question_index = 0]
        ELSE patient

\* ------------------------------------------------------------------------
\* process_follow_up
\* ------------------------------------------------------------------------
\* "Initialize responses for symptom if not exists"
init_responses(patient) ==
    IF TruthyText(patient.current_symptom)
       /\ patient.current_symptom[1] \notin DOMAIN patient.responses
    THEN patient.responses @@ (patient.current_symptom[1] :> <<>>)
    ELSE patient.responses

\* patient.responses[patient.current_symptom] raises KeyError
process_follow_up_raises(patient) ==
    \/ patient.current_symptom = None
    \/ patient.current_symptom[1] \notin DOMAIN init_responses(patient)

\* config.MAX_QUESTIONS_PER_SYMPTOM, the other limit of the configuration
MAX_QUESTIONS_PER_SYMPTOM == 4

\* process_follow_up recording the message as received, not stripped
process_follow_up_unstripped(patient, message) ==
    LET symptom == patient.current_symptom[1]
        responses == init_responses(patient)
        answered ==
            [patient EXCEPT
               !.responses = [responses EXCEPT ![symptom] = Append(@, message)],
               !.current_question_index = @ + 1]
    IN  IF answered.current_question_index >= MAX_FOLLOW_UP_QUESTIONS
        THEN [answered EXCEPT !.phase = "completed", !.current_symptom = None]
        ELSE answered

\* process_follow_up comparing the index with MAX_QUESTIONS_PER_SYMPTOM
process_follow_up_per_symptom_limit(patient, message) ==
    LET symptom == patient.current_symptom[1]
        responses == init_responses(patient)
        answered ==
            [patient EXCEPT
               !.responses = [responses EXCEPT ![symptom] = Append(@, strip(message))],
               !.current_question_index = @ + 1]
    IN  IF answered.current_question_index >= MAX_QUESTIONS_PER_SYMPTOM
        THEN [answered EXCEPT !.phase = "completed", !.current_symptom = None]
        ELSE answered

\* process_follow_up going back to the symptoms phase at the limit, to pick
\* another symptom
process_follow_up_reopening(patient, message) ==
    LET symptom == patient.current_symptom[1]
        responses == init_responses(patient)
        answered ==
            [patient EXCEPT
               !.responses = [responses EXCEPT ![symptom] = Append(@, strip(message))],
               !.current_question_index = @ + 1]
    IN  IF answered.current_question_index >= MAX_FOLLOW_UP_QUESTIONS
        THEN [answered EXCEPT !.phase = "symptoms", !.current_symptom = None]
        ELSE answered

\* process_follow_up resetting the index where it clears current_symptom
process_follow_up_resetting_index(patient, message) ==
    LET symptom == patient.current_symptom[1]
        responses == init_responses(patient)
        answered ==
            [patient EXCEPT
               !.responses = [responses EXCEPT ![symptom] = Append(@, strip(message))],
               !.current_question_index = @ + 1]
    IN  IF answered.current_question_index >= MAX_FOLLOW_UP_QUESTIONS
        THEN [answered EXCEPT !.phase = "completed", !.current_symptom = None,
                              !.current_question_index = 0]
        ELSE answered

\* process_follow_up moving on, at the limit, to the next detected symptom that
\* has no answers yet
process_follow_up_next_symptom(patient, message) ==
    LET symptom == patient.current_symptom[1]
        responses == init_responses(patient)
        answered ==
            [patient EXCEPT
               !.responses = [responses EXCEPT ![symptom] = Append(@, strip(message))],
               !.current_question_index = @ + 1]
        remaining == {i \in 1..Len(answered.symptoms) :
                         answered.symptoms[i] \notin DOMAIN answered.responses}
    IN  IF answered.current_question_index >= MAX_FOLLOW_UP_QUESTIONS
        THEN IF remaining # {}
             THEN [answered EXCEPT
                     !.current_symptom =
                         Some(answered.symptoms[CHOOSE i \in remaining :
                                                   \A j \in remaining : i <= j]),
                     !.current_question_index = 0]
             ELSE [answered EXCEPT !.phase = "completed", !.current_symptom = None]
        ELSE answered

\* process_follow_up recording the answer without moving to the next question
process_follow_up_not_counting(patient, message) ==
    LET symptom == patient.current_symptom[1]
        responses == init_responses(patient)
    IN  [patient EXCEPT
           !.responses = [responses EXCEPT ![symptom] = Append(@, strip(message))]]

\* process_follow_up without the limit on the number of questions
process_follow_up_never_completing(patient, message) ==
    LET symptom == patient.current_symptom[1]
        responses == init_responses(patient)
    IN  [patient EXCEPT
           !.responses = [responses EXCEPT ![symptom] = Append(@, strip(message))],
           !.current_question_index = @ + 1]

\* process_follow_up filling in a gender the session does not hold
process_follow_up_filling_gender(patient, message) ==
    LET symptom == patient.current_symptom[1]
        responses == init_responses(patient)
        answered ==
            [patient EXCEPT
               !.responses = [responses EXCEPT ![symptom] = Append(@, strip(message))],
               !.current_question_index = @ + 1,
               !.gender = IF TruthyStr(@) THEN @ ELSE Some("Other")]
    IN  IF answered.current_question_index >= MAX_FOLLOW_UP_QUESTIONS
        THEN [answered EXCEPT !.phase = "completed", !.current_symptom = None]
        ELSE answered

\* process_follow_up comparing the index with > instead of >=
process_follow_up_strict_limit(patient, message) ==
    LET symptom == patient.current_symptom[1]
        responses == init_responses(patient)
        answered ==
            [patient EXCEPT
               !.responses = [responses EXCEPT ![symptom] = Append(@, strip(message))],
               !.current_question_index = @ + 1]
    IN  IF answered.current_question_index > MAX_FOLLOW_UP_QUESTIONS
        THEN [answered EXCEPT !.phase = "completed", !.current_symptom = None]
        ELSE answered

process_follow_up(patient, message) ==
    LET symptom == patient.current_symptom[1]
        responses == init_responses(patient)
        answered ==
            [patient EXCEPT
               !.responses = [responses EXCEPT ![symptom] = Append(@, strip(message))],
               !.current_question_index = @ + 1]
    IN  IF answered.current_question_index >= MAX_FOLLOW_UP_QUESTIONS
        THEN [answered EXCEPT !.phase = "completed", !.current_symptom = None]
        ELSE answered

\* ------------------------------------------------------------------------
\* get_next_follow_up_question
\* ------------------------------------------------------------------------
question_categories == <<"symptom_details", "vital_signs", "medical_history">>

\* all_questions of a dataset record
all_questions(symptom_data) ==
    LET F[i \in 0..Len(question_categories)] ==
            IF i = 0 THEN <<>>
            ELSE IF question_categories[i] \in DOMAIN symptom_data.follow_up_questions
                 THEN F[i - 1] \o symptom_data.follow_up_questions[question_categories[i]]
                 ELSE F[i - 1]
    IN  F[Len(question_categories)]

ClosingNoRule == "Thank you for that information. Let me schedule your consultation."

ClosingAllAsked == "Thank you for providing all the information. I'm now scheduling your consultation with the cardiologist."

\* the record's index in the dataset, 0 when the loop finds none
find_symptom_data(medical_dataset, symptom) ==
    LET items == medical_dataset.items
        hits == {i \in 1..Len(items) : lower(items[i].symptom) = lower(symptom)}
    IN  IF hits = {} THEN 0 ELSE CHOOSE i \in hits : \A j \in hits : i <= j

\* get_next_follow_up_question comparing the index with the limit only: past
\* the end of the list all_questions[index] raises IndexError, which the
\* except branch answers with its closing line
get_next_follow_up_question_unchecked_length(patient, medical_dataset) ==
    IF ~medical_dataset.readable
    THEN [patient |-> patient, response |-> ClosingNoRule]
    ELSE LET k == find_symptom_data(medical_dataset, patient.current_symptom[1])
         IN  IF k = 0
             THEN [patient |-> patient, response |-> ClosingNoRule]
             ELSE LET questions == all_questions(medical_dataset.items[k])
                  IN  IF patient.current_question_index < MAX_FOLLOW_UP_QUESTIONS
                      THEN IF patient.current_question_index < Len(questions)
                           THEN [patient |-> patient,
                                 response |-> questions[patient.current_question_index + 1]]
                           ELSE [patient |-> patient, response |-> ClosingNoRule]
                      ELSE [patient |-> [patient EXCEPT !.phase = "completed"],
                            response |-> ClosingAllAsked]

\* get_next_follow_up_question reading the list one position early (index - 1,
\* Python's negative index wrapping to the last element at index 0)
get_next_follow_up_question_previous_position(patient, medical_dataset) ==
    IF ~medical_dataset.readable
    THEN [patient |-> patient, response |-> ClosingNoRule]
    ELSE LET k == find_symptom_data(medical_dataset, patient.current_symptom[1])
         IN  IF k = 0
             THEN [patient |-> patient, response |-> ClosingNoRule]
             ELSE LET questions == all_questions(medical_dataset.items[k])
                  IN  IF patient.current_question_index < Len(questions)
                         /\ patient.current_question_index < MAX_FOLLOW_UP_QUESTIONS
                      THEN [patient |-> patient,
                            response |-> IF patient.current_question_index = 0
                                         THEN questions[Len(questions)]
                                         ELSE questions[patient.current_question_index]]
                      ELSE [patient |-> [patient EXCEPT !.phase = "completed"],
                            response |-> ClosingAllAsked]

\* get_next_follow_up_question stepping through the list two positions per
\* answer (all_questions[2 * index]); past the end the IndexError is answered
\* by the except branch
get_next_follow_up_question_skipping(patient, medical_dataset) ==
    IF ~medical_dataset.readable
    THEN [patient |-> patient, response |-> ClosingNoRule]
    ELSE LET k == find_symptom_data(medical_dataset, patient.current_symptom[1])
         IN  IF k = 0
             THEN [patient |-> patient, response |-> ClosingNoRule]
             ELSE LET questions == all_questions(medical_dataset.items[k])
                  IN  IF patient.current_question_index < Len(questions)
                         /\ patient.current_question_index < MAX_FOLLOW_UP_QUESTIONS
                      THEN IF 2 * patient.current_question_index < Len(questions)
                           THEN [patient |-> patient,
                                 response |-> questions[2 * patient.current_question_index + 1]]
                           ELSE [patient |-> patient, response |-> ClosingNoRule]
                      ELSE [patient |-> [patient EXCEPT !.phase = "completed"],
                            response |-> ClosingAllAsked]

\* returns the session and the text; called with current_symptom truthy
get_next_follow_up_question(patient, medical_dataset) ==
    IF ~medical_dataset.readable
    THEN [patient |-> patient, response |-> ClosingNoRule]
    ELSE LET k == find_symptom_data(medical_dataset, patient.current_symptom[1])
         IN  IF k = 0
             THEN [patient |-> patient, response |-> ClosingNoRule]
             ELSE LET questions == all_questions(medical_dataset.items[k])
                  IN  IF patient.current_question_index < Len(questions)
                         /\ patient.current_question_index < MAX_FOLLOW_UP_QUESTIONS
                      THEN [patient |-> patient,
                            response |-> questions[patient.current_question_index + 1]]
                      ELSE [patient |-> [patient EXCEPT !.phase = "completed"],
                            response |-> ClosingAllAsked]

\* ------------------------------------------------------------------------
\* is_consultation_complete
\* ------------------------------------------------------------------------
\* the predicate without its conditions on responses
is_consultation_complete_without_responses(patient) ==
    /\ TruthyStr(patient.name) /\ TruthyStr(patient.email)
    /\ TruthyInt(patient.age) \/ TruthyStr(patient.gender)
    /\ Len(patient.symptoms) > 0

is_consultation_complete(patient) ==
    LET essential_info == TruthyStr(patient.name) /\ TruthyStr(patient.email)
        demographic_info == TruthyInt(patient.age) \/ TruthyStr(patient.gender)
        has_symptoms == Len(patient.symptoms) > 0
        has_responses == Cardinality(DOMAIN patient.responses) > 0
    IN  \/ essential_info /\ demographic_info /\ has_symptoms /\ has_responses
        \/ essential_info /\ has_symptoms /\ Cardinality(DOMAIN patient.responses) >= 2

\* ------------------------------------------------------------------------
\* process_patient_message
\* ------------------------------------------------------------------------
\* a dispatch whose final branch is an else running process_basic_info
phase_handler_default_basic_info(patient, medical_dataset, message, extracted_info, order) ==
    CASE patient.phase = "symptoms"   -> process_symptoms(patient, medical_dataset, message, order)
      [] patient.phase = "follow_up"  -> process_follow_up(patient, message)
      [] OTHER                        -> process_basic_info(patient, message, extracted_info)

\* a dispatch of independent ifs: a message that moves the session to symptoms
\* is handed to process_symptoms as well
phase_handler_falling_through(patient, medical_dataset, message, extracted_info, order) ==
    LET first == IF patient.phase = "basic_info"
                 THEN process_basic_info(patient, message, extracted_info)
                 ELSE patient
    IN  CASE first.phase = "symptoms"   -> process_symptoms(first, medical_dataset, message,
                                                            first.symptoms \o detect_symptoms(medical_dataset, message))
          [] patient.phase = "follow_up" -> process_follow_up(patient, message)
          [] OTHER                       -> first

\* "Process based on current phase"; a completed session has no handler
phase_handler(patient, medical_dataset, message, extracted_info, order) ==
    CASE patient.phase = "basic_info" -> process_basic_info(patient, message, extracted_info)
      [] patient.phase = "symptoms"   -> process_symptoms(patient, medical_dataset, message, order)
      [] patient.phase = "follow_up"  -> process_follow_up(patient, message)
      [] OTHER                        -> patient

\* ------------------------------------------------------------------------
\* notification_service
\* ------------------------------------------------------------------------
\* what the Telegram request and the calendar request come to
DispatchOutcomes == [summary : {"sent", "failed"}, appointment : {"created", "failed"}]

NoFailure == [summary |-> "sent", appointment |-> "created"]

\* returns response.status_code == 200, False on any exception
send_consultation_summary(outcome) == outcome = "sent"

\* returns the formatted time with a note, or the unavailable text on exception
schedule_appointment(outcome) ==
    IF outcome = "created" THEN "Google Calendar invite sent"
    ELSE "Appointment scheduling temporarily unavailable"

\* send_notifications whose summary dispatch lets a failure escape: the
\* appointment is not attempted and the exception leaves process_patient_message
send_notifications_propagating(patient, dispatch) ==
    IF send_consultation_summary(dispatch.summary)
    THEN [summary |-> 1, appointment |-> 1, raised |-> FALSE]
    ELSE [summary |-> 1, appointment |-> 0, raised |-> TRUE]

\* both dispatches are awaited in turn; neither return value is looked at
send_notifications(patient, dispatch) ==
    [summary |-> 1, appointment |-> 1, raised |-> FALSE]

\* ------------------------------------------------------------------------
\* ai_service.generate_response
\* ------------------------------------------------------------------------
PhrasingOutcomes == {"generated", "failed"}

\* dict.get('name', '') of a session whose name may be None
NameText(patient_data) ==
    IF TruthyStr(patient_data.name) THEN patient_data.name[1] ELSE ""

_get_fallback_response(phase, patient_data) ==
    LET name == NameText(patient_data)
        missing_name == ~TruthyStr(patient_data.name)
        missing_email == ~TruthyStr(patient_data.email)
        missing_age == ~TruthyInt(patient_data.age)
        missing_gender == ~TruthyStr(patient_data.gender)
    IN  CASE phase = "basic_info" ->
               IF missing_name /\ missing_email /\ missing_age /\ missing_gender
               THEN "Hello! I'm CardioGenie, your AI cardiology assistant. I'm here to help you with your heart health concerns. To get started, could you please tell me your name, age, and what's bringing you here today?"
               ELSE IF missing_name
               THEN "I'd love to help you today! Could you please tell me your name so I can assist you better?"
               ELSE IF missing_email
               THEN "Thanks, " \o name \o "! I'll need your email address to send you appointment details. What's your email?"
               ELSE IF missing_age /\ ~missing_gender
               THEN "Great, " \o name \o "! One quick question - what's your age? Then we can discuss your health concerns."
               ELSE IF missing_gender /\ ~missing_age
               THEN "Perfect, " \o name \o "! Just need to know your gender for our records, then we can talk about what's bothering you."
               ELSE "Thanks, " \o name \o "! What's your age? And more importantly, what cardiovascular symptoms are you experiencing?"
          [] phase = "symptoms" ->
               IF name # ""
               THEN "I'm here to help you, " \o name \o ". Could you describe what symptoms or concerns brought you here today? For example, are you experiencing chest pain, shortness of breath, heart palpitations, or any other heart-related issues?"
               ELSE "I'm here to help with your heart health concerns. Could you describe what symptoms you're experiencing? This could be chest pain, shortness of breath, palpitations, or any other cardiovascular symptoms."
          [] phase = "follow_up" ->
               IF name # ""
               THEN "Thanks for sharing that, " \o name \o ". Could you tell me a bit more about these symptoms? Any additional details would be helpful."
               ELSE "Thank you for sharing that information. Could you provide some more details about your symptoms?"
          [] phase = "completed" ->
               IF name # ""
               THEN "Thank you so much, " \o name \o "! I have all the information I need. I'm now connecting you with our cardiology team - they'll be notified about your case and you'll receive an appointment confirmation shortly. Take care!"
               ELSE "Perfect! I have all the information needed. Our cardiology team will be notified about your case and you'll receive an appointment confirmation shortly. Thank you for using CardioGenie!"
          [] OTHER ->
               "Hello! I'm CardioGenie, your AI cardiology assistant. I'm here to help you with any heart health concerns. Could you please tell me your name so we can get started?"

GeneratedResponse == "generate_response"

\* generate_response falling back to the text of the first phase whatever the
\* phase it is given
generate_response_first_phase(patient_data, phase, phrasing) ==
    IF phrasing = "generated" THEN GeneratedResponse
    ELSE _get_fallback_response("basic_info", patient_data)

\* the model's text, or the fallback when there is no client, the request is
\* refused or it raises
generate_response(patient_data, phase, phrasing) ==
    IF phrasing = "generated" THEN GeneratedResponse
    ELSE _get_fallback_response(phase, patient_data)

CompletionMessage == "Consultation Complete"

\* f"Patient: {user_message}", an entry of conversation_history
patient_entry(message) == [speaker |-> "Patient", text |-> message]

\* f"AI: {response}"
ai_entry(text) == [speaker |-> "AI", text |-> text]

\* process_patient_message choosing the response branch by the phase the
\* message arrived in instead of the phase after its handler
process_patient_message_arrival_phase(patient, medical_dataset, message, extracted_info, order, dispatch, phrasing) ==
    IF patient.phase = "follow_up" /\ process_follow_up_raises(patient)
    THEN [patient |-> patient, handled |-> patient,
          raised |-> TRUE, summary |-> 0, appointment |-> 0,
          response |-> "KeyError", sequenced |-> FALSE, delegated |-> FALSE,
          saved |-> FALSE, history |-> <<patient_entry(message)>>]
    ELSE LET handled == phase_handler(patient, medical_dataset, message, extracted_info, order)
         IN  IF is_consultation_complete(handled)
             THEN LET completed == [handled EXCEPT !.phase = "completed"]
                      sent == send_notifications(completed, dispatch)
                  IN  [patient |-> completed, handled |-> handled,
                       raised |-> sent.raised, summary |-> sent.summary,
                       appointment |-> sent.appointment,
                       response |-> IF sent.raised THEN "Exception"
                                    ELSE CompletionMessage,
                       sequenced |-> FALSE, delegated |-> FALSE, saved |-> FALSE,
                       history |-> <<patient_entry(message)>>]
             ELSE IF patient.phase = "follow_up" /\ TruthyText(handled.current_symptom)
                  THEN LET next == get_next_follow_up_question(handled, medical_dataset)
                       IN  [patient |-> next.patient, handled |-> handled,
                            raised |-> FALSE, summary |-> 0, appointment |-> 0,
                            response |-> next.response, sequenced |-> TRUE,
                            delegated |-> FALSE, saved |-> TRUE,
                            history |-> <<patient_entry(message), ai_entry(next.response)>>]
                  ELSE [patient |-> handled, handled |-> handled,
                        raised |-> FALSE, summary |-> 0, appointment |-> 0,
                        response |-> generate_response(handled, handled.phase, phrasing),
                        sequenced |-> FALSE,
                        delegated |-> TRUE, saved |-> TRUE,
                        history |-> <<patient_entry(message),
                                      ai_entry(generate_response(handled, handled.phase, phrasing))>>]

\* The session after the message and after its phase handler, whether the
\* handler raised, how often each dispatch of send_notifications was
\* invoked, the text returned, and whether the sequencer was called, the
\* phrasing delegate was called and the session saved.
process_patient_message(patient, medical_dataset, message, extracted_info, order, dispatch, phrasing) ==
    IF patient.phase = "follow_up" /\ process_follow_up_raises(patient)
    THEN [patient |-> patient, handled |-> patient,
          raised |-> TRUE, summary |-> 0, appointment |-> 0,
          response |-> "KeyError", sequenced |-> FALSE, delegated |-> FALSE,
          saved |-> FALSE, history |-> <<patient_entry(message)>>]
    ELSE LET handled == phase_handler(patient, medical_dataset, message, extracted_info, order)
         IN  IF is_consultation_complete(handled)
             THEN LET completed == [handled EXCEPT !.phase = "completed"]
                      sent == send_notifications(completed, dispatch)
                  IN  [patient |-> completed, handled |-> handled,
                       raised |-> sent.raised, summary |-> sent.summary,
                       appointment |-> sent.appointment,
                       response |-> IF sent.raised THEN "Exception"
                                    ELSE CompletionMessage,
                       sequenced |-> FALSE, delegated |-> FALSE, saved |-> FALSE,
                       history |-> <<patient_entry(message)>>]
             ELSE IF handled.phase = "follow_up" /\ TruthyText(handled.current_symptom)
                  THEN LET next == get_next_follow_up_question(handled, medical_dataset)
                       IN  [patient |-> next.patient, handled |-> handled,
                            raised |-> FALSE, summary |-> 0, appointment |-> 0,
                            response |-> next.response, sequenced |-> TRUE,
                            delegated |-> FALSE, saved |-> TRUE,
                            history |-> <<patient_entry(message), ai_entry(next.response)>>]
                  ELSE [patient |-> handled, handled |-> handled,
                        raised |-> FALSE, summary |-> 0, appointment |-> 0,
                        response |-> generate_response(handled, handled.phase, phrasing),
                        sequenced |-> FALSE,
                        delegated |-> TRUE, saved |-> TRUE,
                        history |-> <<patient_entry(message),
                                      ai_entry(generate_response(handled, handled.phase, phrasing))>>]

\* ------------------------------------------------------------------------
\* DatabaseManager._load_medical_dataset
\* ------------------------------------------------------------------------
\* seq[:n]
Take(seq, n) == SubSeq(seq, 1, IF n < Len(seq) THEN n ELSE Len(seq))

\* the except branch "Fallback to basic rules"
FallbackSymptomRules ==
    (<<"c", "h", "e", "s", "t", " ", "p", "a", "i", "n">> :>
        <<"When did the chest pain start?",
          "Can you describe the pain (pressure, squeezing, sharp, burning)?",
          "What is your current blood pressure and heart rate?",
          "Is the chest pain sudden and severe?">>)
    @@ (<<"s", "h", "o", "r", "t", "n", "e", "s", "s", " ", "o", "f", " ", "b", "r", "e", "a", "t", "h">> :>
        <<"Is the breathlessness at rest or with exertion?",
          "Do you have difficulty breathing when lying flat?",
          "What is your resting oxygen saturation?",
          "Is the shortness of breath sudden in onset?">>)

\* the loader taking its questions from the categories the sequencer reads
\* (every symptom_details, vital_signs and medical_history question)
key_questions_sequencer_categories(item) ==
    all_questions(item)

\* the questions list the loader builds for one dataset record
key_questions(item) ==
    LET follow_up_questions == item.follow_up_questions
        details == IF "symptom_details" \in DOMAIN follow_up_questions
                   THEN Take(follow_up_questions["symptom_details"], 2) ELSE <<>>
        vitals  == IF "vital_signs" \in DOMAIN follow_up_questions
                   THEN Take(follow_up_questions["vital_signs"], 1) ELSE <<>>
        flags   == IF "red_flags" \in DOMAIN follow_up_questions
                   THEN Take(follow_up_questions["red_flags"], 1) ELSE <<>>
    IN  Take(details \o vitals \o flags, 4)

\* symptom_rules: symptom -> questions; a record with no question gets no
\* entry, a later record of the same symptom replaces an earlier one
_load_medical_dataset(medical_dataset) ==
    IF ~medical_dataset.readable THEN FallbackSymptomRules
    ELSE LET items == medical_dataset.items
             kept == {i \in 1..Len(items) : key_questions(items[i]) # <<>>}
         IN  [symptom \in {lower(items[i].symptom) : i \in kept} |->
                 LET last == CHOOSE i \in kept :
                                 /\ lower(items[i].symptom) = symptom
                                 /\ \A j \in kept : lower(items[j].symptom) = symptom => j <= i
                 IN  key_questions(items[last])]

\* ------------------------------------------------------------------------
\* save_patient_data
\* ------------------------------------------------------------------------
\* the row written for the session id (INSERT OR REPLACE); completed_at, a
\* timestamp, is left out
save_patient_data(patient) ==
    [name |-> patient.name, email |-> patient.email, age |-> patient.age,
     gender |-> patient.gender, symptoms |-> patient.symptoms,
     responses |-> patient.responses, status |-> patient.phase]

\* ------------------------------------------------------------------------
\* One session on one connection
\* ------------------------------------------------------------------------
VARIABLES
    dataset_file,       \* the file at config.MEDICAL_DATASET_PATH
    patient,            \* manager.patient_sessions[session_id]
    inbound,            \* the message handled last, None before the first
    phase_before,       \* patient.phase when that message arrived
    summary_calls,      \* invocations of send_consultation_summary
    appointment_calls,  \* invocations of schedule_appointment
    raised,             \* the message loop ended with an exception
    handled,            \* the session as the phase handler left it, for that message
    response,           \* the text returned for that message
    sequenced,          \* get_next_follow_up_question was called for that message
    delegated,          \* ai_service.generate_response was called for that message
    asked,              \* the questions the sequencer returned so far, in order
    persisted,          \* the session's row in the patients table, None before the first save
    dispatched,         \* what the two dispatches of that message came to, None without dispatch
    extraction,         \* "none": extractor not called for that message; "empty": it yielded {}; "found"
    phrased,            \* what generate_response came to for that message, None when not called
    active_connections, \* manager.active_connections: session id -> websocket
    patient_sessions,   \* manager.patient_sessions: session id -> PatientSession
    endpoint,           \* each websocket's run of websocket_endpoint: its state and session id
    event,              \* what the last step of an endpoint was and what it answered
    processed,          \* messages handed to process_patient_message by the endpoints
    source,             \* the dataset the loader and the sequencer are applied to
    catalog,            \* symptom_rules as _load_medical_dataset built it, None before
    asked_at,           \* a call of the sequencer on source: symptom, index, text, None before
    conversation_history \* patient.conversation_history, followed in SpecHistory

vars == <<dataset_file, patient, inbound, phase_before, summary_calls, appointment_calls,
          raised, handled, response, sequenced, delegated, asked, persisted,
          dispatched, extraction, phrased,
          active_connections, patient_sessions, endpoint, event, processed,
          source, catalog, asked_at, conversation_history>>

\* the dataset, the catalog built from it and one sequencer call on it
loader_vars == <<source, catalog, asked_at>>

\* the state of the connection manager and its endpoints
connection_vars == <<active_connections, patient_sessions, endpoint, event, processed>>

\* the state of the single session followed message by message
session_vars == <<dataset_file, patient, inbound, phase_before, summary_calls,
                  appointment_calls, raised, handled, response, sequenced, delegated,
                  asked, persisted, dispatched, extraction, phrased,
                  conversation_history>>

WebSockets == {"ws1", "ws2"}

SessionIds == {"s1", "s2"}

\* a function without the key k
Without(f, k) == [x \in DOMAIN f \ {k} |-> f[x]]

\* a function with f[k] = v, k new or not
With(f, k, v) == [x \in DOMAIN f \cup {k} |-> IF x = k THEN v ELSE f[x]]

NoEvent ==
    [kind |-> "none", websocket |-> "none", session_id |-> "none", response |-> "",
     sent_to |-> "none", dispatches |-> 0, delegated |-> FALSE, saved |-> FALSE]

\* the two closing lines of get_next_follow_up_question
ClosingLines == {ClosingNoRule, ClosingAllAsked}

\* the manager and the followed session before the first connection
InitManager ==
    /\ dataset_file \in DatasetFiles
    /\ patient = NewPatientSession
    /\ inbound = None
    /\ phase_before = None
    /\ summary_calls = 0
    /\ appointment_calls = 0
    /\ raised = FALSE
    /\ handled = None
    /\ response = None
    /\ sequenced = FALSE
    /\ delegated = FALSE
    /\ asked = <<>>
    /\ persisted = None
    /\ dispatched = None
    /\ extraction = "none"
    /\ phrased = None
    /\ active_connections = <<>>
    /\ patient_sessions = <<>>
    /\ endpoint = [ws \in WebSockets |-> [state |-> "idle", session_id |-> "none"]]
    /\ event = NoEvent
    /\ processed = 0
    /\ conversation_history = <<>>

\* before the first connection; initialize_database has loaded the catalog
Init ==
    /\ InitManager
    /\ source = read_dataset(dataset_file)
    /\ catalog = Some(_load_medical_dataset(source))
    /\ asked_at = None

\* the extraction delegate is called by process_basic_info only
ExtractorInputs(p) ==
    IF p.phase = "basic_info" THEN ExtractorOutputs ELSE {EmptyExtract}

\* list(set(...)) runs in process_symptoms only
OrderInputs(p, message) ==
    IF p.phase = "symptoms" THEN deduplicated(p, read_dataset(dataset_file), message) ELSE {p.symptoms}

\* process_patient_message applied to the session, and what it leaves behind
HandleMessage(message, extracted_info, order, dispatch, phrasing) ==
    \E result \in {process_patient_message(patient, read_dataset(dataset_file), message,
                                          extracted_info, order, dispatch, phrasing)} :
        /\ patient' = result.patient
        /\ raised' = result.raised
        /\ summary_calls' = summary_calls + result.summary
        /\ appointment_calls' = appointment_calls + result.appointment
        /\ inbound' = Some(message)
        /\ phase_before' = Some(patient.phase)
        /\ handled' = Some(result.handled)
        /\ response' = Some(result.response)
        /\ sequenced' = result.sequenced
        /\ delegated' = result.delegated
        /\ asked' = IF result.sequenced /\ result.response \notin ClosingLines
                    THEN Append(asked, result.response)
                    ELSE asked
        /\ persisted' = IF result.saved
                        THEN Some(save_patient_data(result.patient))
                        ELSE persisted

\* websocket_endpoint receives a non-blank message and processes it; the
\* Telegram, calendar and phrasing requests succeed
ReceiveMessage ==
    /\ ~raised
    /\ summary_calls < MaxDispatch
    /\ \E message \in Messages :
       \E extracted_info \in ExtractorInputs(patient) :
       \E order \in OrderInputs(patient, message) :
           HandleMessage(message, extracted_info, order, NoFailure, "generated")
    /\ UNCHANGED <<dataset_file, dispatched, extraction, phrased, conversation_history>>
    /\ UNCHANGED connection_vars
    /\ UNCHANGED loader_vars

\* the extractor outcomes of the specification with failing requests
FailureExtractorOutputs ==
    {EmptyExtract,
     [name |-> Some("Jane"), email |-> Some("jane@x.com"), age |-> None, gender |-> None],
     [name |-> Some("Jane"), email |-> Some("jane@x.com"), age |-> Some(30),
      gender |-> Some("Female")]}

\* send_notifications runs when the predicate holds after the phase handler
DispatchInputs(after) ==
    IF is_consultation_complete(after) THEN DispatchOutcomes ELSE {NoFailure}

\* generate_response runs when neither the predicate nor the sequencer answers
PhrasingInputs(after) ==
    IF \/ is_consultation_complete(after)
       \/ after.phase = "follow_up" /\ TruthyText(after.current_symptom)
    THEN {"generated"}
    ELSE PhrasingOutcomes

\* websocket_endpoint receives a non-blank message and processes it; each of
\* the Telegram, calendar, extraction and phrasing requests may fail
ReceiveMessageWithFailures ==
    /\ ~raised
    /\ summary_calls < MaxDispatch
    /\ \E message \in Messages :
       \E extracted_info \in (IF patient.phase = "basic_info"
                              THEN FailureExtractorOutputs ELSE {EmptyExtract}) :
       \E order \in OrderInputs(patient, message) :
       \E after \in {IF patient.phase = "follow_up" /\ process_follow_up_raises(patient)
                      THEN patient
                      ELSE phase_handler(patient, read_dataset(dataset_file), message,
                                         extracted_info, order)} :
       \E dispatch \in DispatchInputs(after) :
       \E phrasing \in PhrasingInputs(after) :
           /\ HandleMessage(message, extracted_info, order, dispatch, phrasing)
           /\ dispatched' = IF is_consultation_complete(after) THEN Some(dispatch) ELSE None
           /\ extraction' = IF patient.phase # "basic_info" THEN "none"
                            ELSE IF extracted_info = EmptyExtract THEN "empty"
                            ELSE "found"
           /\ phrased' = IF PhrasingInputs(after) = PhrasingOutcomes
                         THEN Some(phrasing) ELSE None
    /\ UNCHANGED <<dataset_file, conversation_history>>
    /\ UNCHANGED connection_vars
    /\ UNCHANGED loader_vars

Next == ReceiveMessage

Spec == Init /\ [][Next]_vars

NextWithFailures == ReceiveMessageWithFailures

SpecWithFailures == Init /\ [][NextWithFailures]_vars

\* ------------------------------------------------------------------------
\* The session with its conversation_history
\* ------------------------------------------------------------------------
\* the entries the log is followed up to
MaxHistory == 8

HistoryMessages == {MsgChestPain, MsgHi}

\* websocket_endpoint receives a non-blank message and processes it; the log
\* takes the entries process_patient_message appends
ReceiveMessageLogged ==
    /\ ~raised
    /\ summary_calls < MaxDispatch
    /\ Len(conversation_history) < MaxHistory
    /\ \E message \in HistoryMessages :
       \E extracted_info \in (IF patient.phase = "basic_info"
                              THEN FailureExtractorOutputs ELSE {EmptyExtract}) :
       \E order \in OrderInputs(patient, message) :
           /\ HandleMessage(message, extracted_info, order, NoFailure, "generated")
           /\ \E result \in {process_patient_message(patient, read_dataset(dataset_file),
                                   message, extracted_info, order, NoFailure, "generated")} :
                 conversation_history' = conversation_history \o result.history
    /\ UNCHANGED <<dataset_file, dispatched, extraction, phrased>>
    /\ UNCHANGED connection_vars
    /\ UNCHANGED loader_vars

NextHistory == ReceiveMessageLogged

SpecHistory == Init /\ [][NextHistory]_vars

\* ------------------------------------------------------------------------
\* Several connections: ConnectionManager and websocket_endpoint
\* ------------------------------------------------------------------------
MaxProcessed == 3

SessionError == "Session error. Please refresh and try again."

WelcomeMessage == "Hi! I'm CardioGenie, your AI assistant for cardiology consultations. To provide you with the best care, could you please share your name, age, and gender?"

\* the texts and extractor outcomes the endpoints are driven with
ConnectionMessages == {MsgChestPain, MsgHi}

ConnectionExtractorOutputs ==
    {EmptyExtract,
     [name |-> Some("Jane"), email |-> Some("jane@x.com"), age |-> Some(30),
      gender |-> Some("Female")]}

\* what receive_text delivers: a JSON object with a message, text that is not
\* JSON, a JSON object without a message field, a blank message
Payloads ==
    [kind : {"text"}, message : ConnectionMessages]
    \cup {[kind |-> "invalid_json", message |-> <<>>],
          [kind |-> "no_message_field", message |-> <<>>],
          [kind |-> "blank", message |-> <<" ", " ">>]}

\* json.loads(data): raises on text that is not JSON
json_loads_raises(payload) == payload.kind = "invalid_json"

\* message_data.get("message", "")
patient_message(payload) ==
    IF payload.kind = "no_message_field" THEN <<>> ELSE payload.message

\* process_patient_message creating a session for an id that has none
process_session_message_creating(sessions, session_id, medical_dataset, message, extracted_info, order) ==
    CHOOSE outcome \in
        {[sessions |-> With(sessions, session_id, result.patient),
          response |-> result.response, raised |-> result.raised,
          dispatches |-> result.summary + result.appointment,
          delegated |-> result.delegated, saved |-> result.saved] :
         result \in {process_patient_message(
                        IF session_id \in DOMAIN sessions THEN sessions[session_id]
                        ELSE NewPatientSession,
                        medical_dataset, message, extracted_info, order,
                        NoFailure, "generated")}} : TRUE

\* process_patient_message from its lookup of the session id on
process_session_message(sessions, session_id, medical_dataset, message, extracted_info, order) ==
    IF session_id \notin DOMAIN sessions
    THEN [sessions |-> sessions, response |-> SessionError, raised |-> FALSE,
          dispatches |-> 0, delegated |-> FALSE, saved |-> FALSE]
    ELSE CHOOSE outcome \in
             {[sessions |-> [sessions EXCEPT ![session_id] = result.patient],
               response |-> result.response, raised |-> result.raised,
               dispatches |-> result.summary + result.appointment,
               delegated |-> result.delegated, saved |-> result.saved] :
              result \in {process_patient_message(sessions[session_id], medical_dataset,
                              message, extracted_info, order, NoFailure, "generated")}} : TRUE

\* ConnectionManager.connect
connect(connections, sessions, websocket, session_id) ==
    [connections |-> With(connections, session_id, websocket),
     sessions |-> With(sessions, session_id, NewPatientSession)]

\* ConnectionManager.disconnect removing the connection only
disconnect_keeping_session(connections, sessions, session_id) ==
    [connections |-> Without(connections, session_id),
     sessions |-> sessions]

\* ConnectionManager.disconnect
disconnect(connections, sessions, session_id) ==
    [connections |-> Without(connections, session_id),
     sessions |-> Without(sessions, session_id)]

\* ConnectionManager.send_message: the websocket the text goes to, if any
send_message(connections, session_id) ==
    IF session_id \in DOMAIN connections THEN connections[session_id] ELSE "none"

\* websocket_endpoint up to its loop: connect and welcome
Connect(ws) ==
    /\ endpoint[ws].state = "idle"
    /\ \E session_id \in SessionIds :
       \E connected \in {connect(active_connections, patient_sessions, ws, session_id)} :
          /\ active_connections' = connected.connections
          /\ patient_sessions' = connected.sessions
          /\ endpoint' = [endpoint EXCEPT ![ws] = [state |-> "open", session_id |-> session_id]]
          /\ event' = [NoEvent EXCEPT !.kind = "connect", !.websocket = ws,
                                      !.session_id = session_id,
                                      !.response = WelcomeMessage,
                                      !.sent_to = send_message(connected.connections, session_id)]
    /\ UNCHANGED processed
    /\ UNCHANGED session_vars
    /\ UNCHANGED loader_vars

\* the session an endpoint's message is processed on, if there is one
ExtractorInputsOn(session_id) ==
    IF session_id \in DOMAIN patient_sessions
    THEN IF patient_sessions[session_id].phase = "basic_info"
         THEN ConnectionExtractorOutputs ELSE {EmptyExtract}
    ELSE {EmptyExtract}

OrderInputsOn(session_id, message) ==
    IF session_id \in DOMAIN patient_sessions
    THEN OrderInputs(patient_sessions[session_id], message)
    ELSE {<<>>}

\* json.loads raises: the exception leaves websocket_endpoint
ReceiveInvalidJson(ws, payload) ==
    /\ json_loads_raises(payload)
    /\ endpoint' = [endpoint EXCEPT ![ws].state = "crashed"]
    /\ event' = [NoEvent EXCEPT !.kind = "malformed", !.websocket = ws,
                                !.session_id = endpoint[ws].session_id]
    /\ UNCHANGED <<active_connections, patient_sessions, processed>>

\* patient_message.strip() is empty: the turn does nothing
ReceiveBlank(ws, payload) ==
    /\ ~json_loads_raises(payload)
    /\ strip(patient_message(payload)) = <<>>
    /\ event' = [NoEvent EXCEPT !.kind = IF payload.kind = "blank" THEN "blank"
                                         ELSE "malformed",
                                !.websocket = ws, !.session_id = endpoint[ws].session_id]
    /\ UNCHANGED <<active_connections, patient_sessions, endpoint, processed>>

\* process_patient_message and send_message
ReceiveText(ws, payload) ==
    /\ ~json_loads_raises(payload)
    /\ strip(patient_message(payload)) # <<>>
    /\ processed < MaxProcessed
    /\ \E extracted_info \in ExtractorInputsOn(endpoint[ws].session_id) :
       \E order \in OrderInputsOn(endpoint[ws].session_id, payload.message) :
       \E result \in {process_session_message(patient_sessions, endpoint[ws].session_id,
                          read_dataset(dataset_file), payload.message,
                          extracted_info, order)} :
          /\ patient_sessions' = result.sessions
          /\ endpoint' = [endpoint EXCEPT ![ws].state =
                             IF result.raised THEN "crashed" ELSE "open"]
          /\ event' = [kind |-> "message", websocket |-> ws,
                       session_id |-> endpoint[ws].session_id,
                       response |-> result.response,
                       sent_to |-> IF result.raised THEN "none"
                                   ELSE send_message(active_connections,
                                                     endpoint[ws].session_id),
                       dispatches |-> result.dispatches,
                       delegated |-> result.delegated, saved |-> result.saved]
    /\ processed' = processed + 1
    /\ UNCHANGED active_connections

\* one turn of the loop of websocket_endpoint on a received text
Receive(ws) ==
    /\ endpoint[ws].state = "open"
    /\ \E payload \in Payloads :
          \/ ReceiveInvalidJson(ws, payload)
          \/ ReceiveBlank(ws, payload)
          \/ ReceiveText(ws, payload)
    /\ UNCHANGED session_vars
    /\ UNCHANGED loader_vars

\* receive_text raises WebSocketDisconnect
Disconnect(ws) ==
    /\ endpoint[ws].state = "open"
    /\ \E disconnected \in {disconnect(active_connections, patient_sessions,
                                       endpoint[ws].session_id)} :
          /\ active_connections' = disconnected.connections
          /\ patient_sessions' = disconnected.sessions
    /\ endpoint' = [endpoint EXCEPT ![ws].state = "closed"]
    /\ event' = [NoEvent EXCEPT !.kind = "disconnect", !.websocket = ws,
                                !.session_id = endpoint[ws].session_id]
    /\ UNCHANGED processed
    /\ UNCHANGED session_vars
    /\ UNCHANGED loader_vars

NextConnections ==
    \E ws \in WebSockets :
        \/ Connect(ws)
        \/ Receive(ws)
        \/ Disconnect(ws)

SpecConnections == Init /\ [][NextConnections]_vars

\* ------------------------------------------------------------------------
\* The catalog loader and the sequencer on one dataset
\* ------------------------------------------------------------------------
MaxCategoryQuestions == 3

Categories == {"symptom_details", "vital_signs", "medical_history", "red_flags"}

\* the questions a category of a record may hold, in order
CategoryQuestions ==
    [symptom_details |-> <<"details_1", "details_2", "details_3", "details_4", "details_5">>,
     vital_signs     |-> <<"vitals_1", "vitals_2", "vitals_3", "vitals_4", "vitals_5">>,
     medical_history |-> <<"history_1", "history_2", "history_3", "history_4", "history_5">>,
     red_flags       |-> <<"redflag_1", "redflag_2", "redflag_3", "redflag_4", "redflag_5">>]

\* the dataset records: each category absent (-1) or holding its first n questions
DatasetRecords ==
    {[symptom |-> ChestPainName,
      follow_up_questions |->
          [category \in {c \in Categories : n[c] >= 0} |->
              SubSeq(CategoryQuestions[category], 1, n[category])]] :
        n \in [Categories -> -1..MaxCategoryQuestions]}

\* the datasets: one record each, or a file that cannot be read or parsed
LoaderSources ==
    {[readable |-> TRUE, items |-> <<record>>] : record \in DatasetRecords}
    \cup {DatasetUnreadable}

\* before initialize_database, over some dataset
InitLoader ==
    /\ InitManager
    /\ source \in LoaderSources
    /\ catalog = None
    /\ asked_at = None

\* the symptoms detection can make current_symptom over the dataset
SourceSymptoms(medical_dataset) ==
    LET symptom_keywords == generate_symptom_keywords(medical_dataset)
    IN  {symptom_keywords[i].symptom : i \in 1..Len(symptom_keywords)}

\* initialize_database: symptom_rules = self._load_medical_dataset(path)
LoadCatalog ==
    /\ catalog = None
    /\ catalog' = Some(_load_medical_dataset(source))
    /\ UNCHANGED <<source, asked_at>>
    /\ UNCHANGED session_vars
    /\ UNCHANGED connection_vars

\* get_next_follow_up_question on a session in follow_up at some index
AskSequencer ==
    /\ \E symptom \in SourceSymptoms(source) :
       \E index \in 0..(MAX_FOLLOW_UP_QUESTIONS - 1) :
       \E next \in {get_next_follow_up_question(
                        [NewPatientSession EXCEPT !.phase = "follow_up",
                                                  !.symptoms = <<symptom>>,
                                                  !.current_symptom = Some(symptom),
                                                  !.current_question_index = index],
                        source)} :
           asked_at' = Some([symptom |-> symptom, index |-> index,
                             response |-> next.response,
                             completed |-> next.patient.phase = "completed"])
    /\ UNCHANGED <<source, catalog>>
    /\ UNCHANGED session_vars
    /\ UNCHANGED connection_vars

NextLoader == LoadCatalog \/ AskSequencer

SpecLoader == InitLoader /\ [][NextLoader]_vars

\* ------------------------------------------------------------------------
\* Claims
\* ------------------------------------------------------------------------
\* the last message was handled in phase ph
HandledIn(ph) == phase_before = Some(ph)

\* C1: over the messages of a session the phase never moves backwards in the
\* order basic_info < symptoms < follow_up < completed.
C1_PhaseMonotonic ==
    [][PhaseRank(patient'.phase) >= PhaseRank(patient.phase)]_vars

\* C1 witness: a session that went through every phase.
C1_Witness ==
    /\ HandledIn("follow_up")
    /\ patient.phase = "completed"
    /\ patient.current_question_index = MAX_FOLLOW_UP_QUESTIONS

\* C2 (as claimed): the summary dispatch and the appointment dispatch are each
\* invoked at most once in a session, however many messages follow completion.
C2_DispatchAtMostOnce ==
    summary_calls <= 1 /\ appointment_calls <= 1

\* C3 (as claimed): a session whose phase is completed, by whichever route,
\* has had both the summary and the appointment dispatch invoked.
C3_CompletedImpliesDispatched ==
    patient.phase = "completed" => (summary_calls >= 1 /\ appointment_calls >= 1)

\* C4: once name, email, age or gender is set, no later message and no later
\* extractor output changes it.
C4_FieldsWriteOnce ==
    [][/\ patient.name # None   => patient'.name = patient.name
       /\ patient.email # None  => patient'.email = patient.email
       /\ patient.age # None    => patient'.age = patient.age
       /\ patient.gender # None => patient'.gender = patient.gender]_vars

\* C4 witness: a basic_info message arrived while a field was already set (the
\* extractor may return any value for it) and the session is still in
\* basic_info.
C4_Witness ==
    /\ HandledIn("basic_info")
    /\ patient.phase = "basic_info"
    /\ patient.name = Some("Jane")
    /\ patient.age = Some(30)
    /\ patient.email = None

\* C5 (as claimed): whenever the phase is past basic_info, name and email are
\* both set.
C5_PastBasicInfoHasNameAndEmail ==
    patient.phase # "basic_info" => (TruthyStr(patient.name) /\ TruthyStr(patient.email))

NoSequencerQuestion(symptom) ==
    LET medical_dataset == read_dataset(dataset_file)
        k == find_symptom_data(medical_dataset, symptom)
    IN  /\ medical_dataset.readable
        /\ k # 0
        /\ Len(all_questions(medical_dataset.items[k])) = 0

C8_FollowUpAppendsStrippedAnswer ==
    [][patient.phase = "follow_up" =>
         LET symptom == patient.current_symptom[1]
             before == IF symptom \in DOMAIN patient.responses
                       THEN patient.responses[symptom] ELSE <<>>
         IN  /\ DOMAIN patient'.responses = DOMAIN patient.responses \cup {symptom}
             /\ patient'.responses[symptom] = Append(before, strip(inbound'[1]))
             /\ \A other \in DOMAIN patient.responses \ {symptom} :
                    patient'.responses[other] = patient.responses[other]
             /\ patient'.current_question_index = patient.current_question_index + 1]_vars

\* C8 witness: two answers recorded, the last one sent with surrounding blanks.
C8_Witness ==
    /\ HandledIn("follow_up")
    /\ inbound = Some(MsgChestPain)
    /\ patient.current_question_index = 2
    /\ \E symptom \in DOMAIN patient.responses : Len(patient.responses[symptom]) = 2

\* C9: a follow_up message that brings current_question_index to
\* MAX_FOLLOW_UP_QUESTIONS ends in phase completed with current_symptom
\* cleared, however many questions the dataset holds for the symptom.
C9_MaxFollowUpCompletes ==
    [][(patient.phase = "follow_up"
        /\ patient'.current_question_index = MAX_FOLLOW_UP_QUESTIONS)
         => (patient'.phase = "completed" /\ patient'.current_symptom = None)]_vars

\* C9 witness: the symptom with five questions in the dataset, completed by
\* the second answer.
C9_Witness ==
    /\ HandledIn("follow_up")
    /\ dataset_file = "full"
    /\ DOMAIN patient.responses = {lower(ChestPainName)}
    /\ patient.current_question_index = MAX_FOLLOW_UP_QUESTIONS
    /\ patient.phase = "completed"

\* C10 (as claimed): whenever the phase is completed, current_symptom is
\* cleared, whichever route led to completion.
C10_CompletedClearsCurrentSymptom ==
    patient.phase = "completed" => patient.current_symptom = None

\* the number of questions the sequencer finds for the symptom, -1 when it
\* cannot read the dataset or finds no record
SequencerQuestionCount(symptom) ==
    LET medical_dataset == read_dataset(dataset_file)
        k == find_symptom_data(medical_dataset, symptom)
    IN  IF medical_dataset.readable /\ k # 0
        THEN Len(all_questions(medical_dataset.items[k]))
        ELSE -1

\* C11: when the dataset holds n questions for current_symptom, n below
\* MAX_FOLLOW_UP_QUESTIONS, the follow_up message that brings
\* current_question_index to n leaves the session in phase completed.
C11_ExhaustionCompletes ==
    [][(/\ patient.phase = "follow_up"
        /\ SequencerQuestionCount(patient.current_symptom[1]) >= 0
        /\ SequencerQuestionCount(patient.current_symptom[1]) < MAX_FOLLOW_UP_QUESTIONS
        /\ patient'.current_question_index
               = SequencerQuestionCount(patient.current_symptom[1]))
         => patient'.phase = "completed"]_vars

\* C11 witness: the symptom with one question, no age and no gender (the
\* completion predicate is false), completed by the first answer.
C11_Witness ==
    /\ HandledIn("follow_up")
    /\ dataset_file = "full"
    /\ DOMAIN patient.responses = {lower(DyspneaName)}
    /\ patient.age = None /\ patient.gender = None
    /\ patient.current_question_index = 1
    /\ sequenced
    /\ patient.phase = "completed"

\* the number of follow-up answers recorded in the session
RecordedAnswers(p) ==
    LET keys == DOMAIN p.responses
        Sum[S \in SUBSET keys] ==
            IF S = {} THEN 0
            ELSE LET k == CHOOSE k \in S : TRUE
                 IN  Len(p.responses[k]) + Sum[S \ {k}]
    IN  Sum[keys]

\* C12 (as claimed): the completion predicate is true exactly when name and
\* email are set, symptoms is non-empty, and either age or gender is set with
\* at least one answer recorded, or at least two answers are recorded.
C12_PredicateMatchesCriteria ==
    is_consultation_complete(patient)
        <=> /\ TruthyStr(patient.name) /\ TruthyStr(patient.email)
            /\ Len(patient.symptoms) > 0
            /\ \/ /\ TruthyInt(patient.age) \/ TruthyStr(patient.gender)
                  /\ RecordedAnswers(patient) >= 1
               \/ RecordedAnswers(patient) >= 2

\* C13: once the phase is completed, every further inbound message leaves
\* phase, name, email, age, gender, symptoms, responses, current_symptom and
\* current_question_index unchanged.
C13_CompletedIsAbsorbing ==
    [][patient.phase = "completed" => patient' = patient]_vars

\* a message was handled by a completed session that the follow-up count
\* limit had completed
C13_Witness ==
    /\ HandledIn("completed")
    /\ inbound = Some(MsgChestPain)
    /\ patient.phase = "completed"
    /\ ~is_consultation_complete(patient)
    /\ delegated

\* the phase handler of the last message left the session in follow_up with
\* current_symptom set
HandledIntoFollowUp ==
    /\ handled # None
    /\ ~raised
    /\ handled[1].phase = "follow_up"
    /\ TruthyText(handled[1].current_symptom)

\* C14 (as claimed): for every message after whose phase handling the session
\* is in follow_up with current_symptom set, the outbound text comes from the
\* sequencer and generate_response is not invoked; generate_response is
\* invoked only when the phase is not follow_up.
C14_FollowUpUsesSequencer ==
    /\ HandledIntoFollowUp => sequenced /\ ~delegated
    /\ delegated => handled[1].phase # "follow_up"

\* C14 (amended): as claimed when the completion predicate is false after the
\* phase handling; when it is true the completion message is returned, and
\* neither the sequencer nor generate_response is invoked.
C14_FollowUpUsesSequencerUnlessComplete ==
    /\ HandledIntoFollowUp /\ ~is_consultation_complete(handled[1])
          => sequenced /\ ~delegated /\ response # Some(GeneratedResponse)
    /\ HandledIntoFollowUp /\ is_consultation_complete(handled[1])
          => ~sequenced /\ ~delegated /\ response = Some(CompletionMessage)
    /\ delegated => handled[1].phase # "follow_up"

\* process_symptoms has just moved the session to follow_up and the sequencer
\* returned the first question
C14_Witness ==
    /\ HandledIn("symptoms")
    /\ HandledIntoFollowUp
    /\ sequenced
    /\ ~delegated
    /\ response = Some("cp_details_1")

\* the follow-up questions the dataset holds for a symptom, in sequencer order
SequencerQuestions(symptom) ==
    LET medical_dataset == read_dataset(dataset_file)
    IN  all_questions(medical_dataset.items[find_symptom_data(medical_dataset, symptom)])

\* C15: called for a symptom present in the dataset, the sequencer returns the
\* question at position current_question_index when that index is below the
\* length of the question list and below MAX_FOLLOW_UP_QUESTIONS, and leaves
\* the session unchanged; otherwise it returns a closing line and sets phase
\* to completed.
C15_SequencerReturnsIndexedQuestion ==
    sequenced /\ SequencerQuestionCount(handled[1].current_symptom[1]) >= 0
        => LET before == handled[1]
               questions == SequencerQuestions(before.current_symptom[1])
           IN  IF before.current_question_index < Len(questions)
                  /\ before.current_question_index < MAX_FOLLOW_UP_QUESTIONS
               THEN /\ response = Some(questions[before.current_question_index + 1])
                    /\ patient = before
               ELSE /\ response[1] \in ClosingLines
                    /\ patient = [before EXCEPT !.phase = "completed"]

\* the sequencer returned the second question of a symptom with several
C15_Witness ==
    /\ sequenced
    /\ handled[1].current_symptom = Some(lower(ChestPainName))
    /\ handled[1].current_question_index = 1
    /\ response = Some("cp_details_2")
    /\ patient = handled[1]

\* the sequencer ran out of questions and completed the session
C15_WitnessClosing ==
    /\ sequenced
    /\ SequencerQuestionCount(handled[1].current_symptom[1]) >= 0
    /\ response = Some(ClosingAllAsked)
    /\ patient.phase = "completed"

\* C16 (as claimed): called with a current_symptom that has no record in the
\* dataset, or with a dataset that cannot be read, the sequencer returns a
\* closing line without raising and the phase is completed afterwards.
C16_MissingRuleCompletes ==
    sequenced /\ SequencerQuestionCount(handled[1].current_symptom[1]) = -1
        => /\ ~raised
           /\ response[1] \in ClosingLines
           /\ patient.phase = "completed"

\* C17: within one session the questions the sequencer returns for a symptom
\* are those at indices 0, 1, 2, ... of its list, in that order: whenever a
\* question is returned, the questions returned so far are the leading
\* segment of the list, none twice, none skipped, none out of place.
C17_QuestionsInIndexOrder ==
    [][asked' # asked
         => LET questions == SequencerQuestions(patient'.current_symptom[1])
            IN  /\ Len(asked') = Len(asked) + 1
                /\ Len(asked') <= Len(questions)
                /\ asked' = SubSeq(questions, 1, Len(asked'))
                /\ \A i, j \in 1..Len(asked') : i # j => asked'[i] # asked'[j]]_vars

\* two questions were returned
C17_Witness ==
    /\ asked = <<"cp_details_1", "cp_details_2">>
    /\ sequenced
    /\ patient.current_question_index = 1

\* C18 (as claimed): current_question_index increases only on messages handled
\* in phase follow_up, and a step changes current_symptom if and only if it
\* sets the index to 0.
C18_IndexResetsWithSymptomChange ==
    [][/\ patient'.current_question_index > patient.current_question_index
            => patient.phase = "follow_up"
       /\ patient'.current_symptom # patient.current_symptom
            => patient'.current_question_index = 0
       /\ (patient'.current_question_index = 0 /\ patient.current_question_index # 0)
            => patient'.current_symptom # patient.current_symptom]_vars

\* C18 (amended): current_question_index changes only on messages handled in
\* phase follow_up, by exactly one; a step that assigns a symptom to
\* current_symptom leaves the index 0; the step that clears current_symptom
\* leaves the index at MAX_FOLLOW_UP_QUESTIONS, not 0.
C18_IndexResetsWithSymptomAssignment ==
    [][/\ patient'.current_question_index # patient.current_question_index
            => /\ patient.phase = "follow_up"
               /\ patient'.current_question_index = patient.current_question_index + 1
       /\ (patient'.current_symptom # patient.current_symptom /\ patient'.current_symptom # None)
            => /\ patient.current_symptom = None
               /\ patient'.current_question_index = 0
       /\ (patient'.current_symptom # patient.current_symptom /\ patient'.current_symptom = None)
            => /\ patient.phase = "follow_up"
               /\ patient'.current_question_index = MAX_FOLLOW_UP_QUESTIONS]_vars

\* the count limit has cleared current_symptom and the index stands at the limit
C18_Witness ==
    /\ HandledIn("follow_up")
    /\ handled[1].current_symptom = None
    /\ patient.current_symptom = None
    /\ patient.current_question_index = MAX_FOLLOW_UP_QUESTIONS
    /\ Len(patient.symptoms) > 0

\* C19: in every reachable state every key of responses is a member of
\* symptoms, and symptoms holds no entry twice.
C19_ResponsesKeyedBySymptoms ==
    /\ DOMAIN patient.responses \subseteq Range(patient.symptoms)
    /\ \A i, j \in 1..Len(patient.symptoms) :
           i # j => patient.symptoms[i] # patient.symptoms[j]

\* two symptoms detected in one message, answers recorded for one of them
C19_Witness ==
    /\ Len(patient.symptoms) = 2
    /\ DOMAIN patient.responses # {}
    /\ Range(patient.symptoms) \ DOMAIN patient.responses # {}

\* C20: a session interviews at most one symptom: current_symptom is assigned
\* a symptom only while none was assigned before, the phase never returns to
\* symptoms from follow_up or completed, and responses holds entries for at
\* most one symptom even when one message detected several.
C20_OneSymptomInterviewed ==
    [][/\ (patient'.current_symptom # None
              /\ patient'.current_symptom # patient.current_symptom)
            => /\ patient.current_symptom = None
               /\ patient.phase = "symptoms"
               /\ DOMAIN patient.responses = {}
       /\ PhaseRank(patient.phase) >= PhaseRank("follow_up")
            => patient'.phase # "symptoms"
       /\ Cardinality(DOMAIN patient'.responses) <= 1]_vars

\* two symptoms detected in one message; the interview of the first ended at
\* the count limit and the session completed without interviewing the second
C20_Witness ==
    /\ HandledIn("follow_up")
    /\ Len(patient.symptoms) = 2
    /\ Cardinality(DOMAIN patient.responses) = 1
    /\ patient.current_symptom = None
    /\ patient.current_question_index = MAX_FOLLOW_UP_QUESTIONS
    /\ patient.phase = "completed"

\* C21 (as claimed): after every processed message, the message that completes
\* the consultation included, the persisted row equals the session's name,
\* email, age, gender, symptoms and responses, and its status is the phase.
C21_SnapshotMatchesSession ==
    inbound # None /\ ~raised => persisted = Some(save_patient_data(patient))

\* C25: on the message at which the completion predicate holds after the phase
\* handler, the session ends in phase completed and the completion message is
\* returned whatever the two dispatches come to; both are attempted once, the
\* appointment also after a failed summary.
C25_CompletionSurvivesDispatchFailure ==
    [][is_consultation_complete(handled'[1])
         => /\ dispatched' # None
            /\ ~raised'
            /\ patient'.phase = "completed"
            /\ response' = Some(CompletionMessage)
            /\ summary_calls' = summary_calls + 1
            /\ appointment_calls' = appointment_calls + 1]_vars

\* the predicate became true on a follow-up answer and both dispatches failed
C25_Witness ==
    /\ HandledIn("follow_up")
    /\ dispatched = Some([summary |-> "failed", appointment |-> "failed"])
    /\ patient.phase = "completed"
    /\ response = Some(CompletionMessage)
    /\ summary_calls = 1
    /\ appointment_calls = 1

C22_ConnectionsIsolated ==
    [][\A other \in WebSockets :
          (/\ other # event'.websocket
           /\ endpoint[other].state = "open"
           /\ endpoint[other].session_id \in DOMAIN patient_sessions)
          => /\ endpoint[other].session_id \in DOMAIN patient_sessions'
             /\ patient_sessions'[endpoint[other].session_id]
                    = patient_sessions[endpoint[other].session_id]]_vars

\* C23: a message for a session id that has no live session returns the
\* session-error text and changes nothing: no session is created or mutated,
\* no delegate or dispatch is invoked and nothing is persisted.
C23_UnknownSessionChangesNothing ==
    [][(event'.kind = "message" /\ event'.session_id \notin DOMAIN patient_sessions)
         => /\ event'.response = SessionError
            /\ patient_sessions' = patient_sessions
            /\ active_connections' = active_connections
            /\ event'.dispatches = 0
            /\ ~event'.delegated
            /\ ~event'.saved]_vars

\* an endpoint whose session another endpoint's disconnect removed was
\* answered with the session error
C23_Witness ==
    /\ event.kind = "message"
    /\ event.response = SessionError
    /\ event.session_id \notin DOMAIN patient_sessions
    /\ endpoint[event.websocket].state = "open"
    /\ processed > 0

\* C24 (as claimed): a malformed payload (invalid JSON, a JSON value without a
\* message field, an empty or whitespace-only message) is ignored: no session
\* changes, nothing is sent, and the loop goes on with the next message.
C24_MalformedPayloadIgnored ==
    [][event'.kind \in {"malformed", "blank"}
         => /\ patient_sessions' = patient_sessions
            /\ event'.sent_to = "none"
            /\ endpoint'[event'.websocket].state = "open"]_vars

\* C30: a connect creates the session with phase basic_info, no name, email,
\* age or gender, empty symptoms and responses and index 0; a disconnect
\* removes the session and its connection, and a later message for that
\* session id is answered with the session error.
C30_ConnectCreatesDisconnectRemoves ==
    [][/\ event'.kind = "connect"
            => /\ active_connections'[event'.session_id] = event'.websocket
               /\ patient_sessions'[event'.session_id] =
                      [name |-> None, email |-> None, age |-> None, gender |-> None,
                       symptoms |-> <<>>, responses |-> <<>>, phase |-> "basic_info",
                       current_symptom |-> None, current_question_index |-> 0]
       /\ event'.kind = "disconnect"
            => /\ event'.session_id \notin DOMAIN patient_sessions'
               /\ event'.session_id \notin DOMAIN active_connections'
       /\ (event'.kind = "message" /\ event'.session_id \notin DOMAIN patient_sessions)
            => event'.response = SessionError]_vars

\* a disconnect has removed a session that had progressed past basic_info
C30_Witness ==
    /\ event.kind = "disconnect"
    /\ endpoint[event.websocket].state = "closed"
    /\ event.session_id \notin DOMAIN patient_sessions
    /\ event.session_id \notin DOMAIN active_connections
    /\ processed > 0

\* the catalog's followUpQuestions for a symptom, none when it has no entry
CatalogQuestions(symptom) ==
    IF symptom \in DOMAIN catalog[1] THEN catalog[1][symptom] ELSE <<>>

\* C27 (as claimed): for every dataset record and every index i below
\* MAX_FOLLOW_UP_QUESTIONS, the question the sequencer asks at index i is the
\* i-th entry of the catalog's followUpQuestions for that symptom, and the
\* sequencer asks none exactly when the catalog has none at i.
C27_SequencerAgreesWithCatalog ==
    (asked_at # None /\ catalog # None /\ source.readable)
        => LET questions == CatalogQuestions(asked_at[1].symptom)
           IN  IF asked_at[1].index < Len(questions)
               THEN asked_at[1].response = questions[asked_at[1].index + 1]
               ELSE asked_at[1].response \in ClosingLines

\* C28: for each dataset record the loader builds followUpQuestions as the
\* first up-to-2 symptom_details questions, then the first up-to-1
\* vital_signs question, then the first up-to-1 red_flags question, at most 4
\* entries; an absent category contributes nothing (and a record left with no
\* question gets no entry).
C28_LoaderBuildsKeyQuestions ==
    (catalog # None /\ source.readable)
        => LET record == source.items[1]
               held(category) ==
                   IF category \in DOMAIN record.follow_up_questions
                   THEN record.follow_up_questions[category] ELSE <<>>
               first(category, n) ==
                   [i \in 1..(IF Len(held(category)) < n THEN Len(held(category)) ELSE n)
                       |-> held(category)[i]]
               expected == first("symptom_details", 2) \o first("vital_signs", 1)
                              \o first("red_flags", 1)
           IN  /\ Len(expected) <= 4
               /\ CatalogQuestions(lower(record.symptom)) = expected
               /\ DOMAIN catalog[1] = IF expected = <<>> THEN {} ELSE {lower(record.symptom)}

\* a record holding more questions than are taken in symptom_details and
\* red_flags, and a medical_history question that is not taken
C28_Witness ==
    /\ catalog # None
    /\ source.readable
    /\ DOMAIN source.items[1].follow_up_questions
           = {"symptom_details", "red_flags", "medical_history"}
    /\ Len(source.items[1].follow_up_questions["symptom_details"]) = 3
    /\ Len(source.items[1].follow_up_questions["red_flags"]) = 2
    /\ Len(source.items[1].follow_up_questions["medical_history"]) = 1
    /\ lower(ChestPainName) \in DOMAIN catalog[1]
    /\ catalog[1][lower(ChestPainName)] = <<"details_1", "details_2", "redflag_1">>

\* C29: with a dataset that cannot be read or parsed, the loader and the
\* keyword generator do not raise and each gives a built-in catalog of exactly
\* two symptoms; a symptoms-phase message naming one of them is detected, the
\* session enters follow_up, and the answer that brings the index to
\* MAX_FOLLOW_UP_QUESTIONS completes it.
C29_FallbackCatalogKeepsSessionGoing ==
    [][dataset_file = "unreadable"
         => /\ Cardinality(DOMAIN catalog[1]) = 2
            /\ Cardinality(SourceSymptoms(read_dataset(dataset_file))) = 2
            /\ ~raised'
            /\ (patient.phase = "symptoms" /\ inbound' = Some(MsgChestPain))
                 => /\ patient'.phase = "follow_up"
                    /\ patient'.current_symptom = Some(lower(ChestPainName))
            /\ (patient.phase = "follow_up"
                  /\ patient'.current_question_index = MAX_FOLLOW_UP_QUESTIONS)
                 => patient'.phase = "completed"]_vars

\* a session over the unreadable dataset went through follow_up to completed
C29_Witness ==
    /\ dataset_file = "unreadable"
    /\ HandledIn("follow_up")
    /\ patient.symptoms = <<lower(ChestPainName)>>
    /\ patient.current_question_index = MAX_FOLLOW_UP_QUESTIONS
    /\ patient.phase = "completed"

\* C32: in every reachable state with phase follow_up, current_symptom is set
\* and is a member of symptoms, and no message handled in follow_up raises on
\* an unset symptom.
C32_FollowUpHasCurrentSymptom ==
    /\ patient.phase = "follow_up"
          => /\ TruthyText(patient.current_symptom)
             /\ patient.current_symptom[1] \in Range(patient.symptoms)
             /\ ~process_follow_up_raises(patient)
    /\ HandledIn("follow_up") => ~raised

\* a follow-up answer was handled and the session is still in follow_up, with
\* two symptoms detected and the first of them current
C32_Witness ==
    /\ HandledIn("follow_up")
    /\ patient.phase = "follow_up"
    /\ Len(patient.symptoms) = 2
    /\ patient.current_question_index = 1
    /\ ~raised

\* C33: in every reachable state current_question_index is between 0 and
\* MAX_FOLLOW_UP_QUESTIONS inclusive, and no symptom has more recorded answers
\* than MAX_FOLLOW_UP_QUESTIONS.
C33_IndexAndAnswersBounded ==
    /\ patient.current_question_index \in 0..MAX_FOLLOW_UP_QUESTIONS
    /\ \A symptom \in DOMAIN patient.responses :
           Len(patient.responses[symptom]) <= MAX_FOLLOW_UP_QUESTIONS

\* the index and the answers of the interviewed symptom stand at the limit
C33_Witness ==
    /\ HandledIn("follow_up")
    /\ patient.current_question_index = MAX_FOLLOW_UP_QUESTIONS
    /\ \E symptom \in DOMAIN patient.responses :
           Len(patient.responses[symptom]) = MAX_FOLLOW_UP_QUESTIONS

\* C34: whenever the phase is follow_up, the number of answers recorded for
\* current_symptom equals current_question_index (no answers, or no entry yet,
\* when the index is 0).
C34_AnswersMatchIndex ==
    patient.phase = "follow_up" /\ patient.current_symptom # None
        => LET symptom == patient.current_symptom[1]
           IN  IF symptom \in DOMAIN patient.responses
               THEN Len(patient.responses[symptom]) = patient.current_question_index
               ELSE patient.current_question_index = 0

\* one answer was recorded in follow_up and the session waits for the second
C34_Witness ==
    /\ HandledIn("follow_up")
    /\ patient.phase = "follow_up"
    /\ patient.current_question_index = 1
    /\ patient.current_symptom[1] \in DOMAIN patient.responses
    /\ Len(patient.responses[patient.current_symptom[1]]) = 1

\* the non-blank messages a session in follow_up can still take before it is
\* completed
FollowUpMessagesLeft(p) == MAX_FOLLOW_UP_QUESTIONS - p.current_question_index

\* C35: a session in follow_up reaches phase completed after at most
\* MAX_FOLLOW_UP_QUESTIONS further messages, whatever their content and
\* whatever the dataset holds: in follow_up between 1 and
\* MAX_FOLLOW_UP_QUESTIONS messages are left, and every message handled in
\* follow_up either completes the session or leaves it in follow_up with one
\* message less left, without raising.
C35_FollowUpCompletesWithinLimit ==
    [][patient.phase = "follow_up"
         => /\ FollowUpMessagesLeft(patient) \in 1..MAX_FOLLOW_UP_QUESTIONS
            /\ ~raised'
            /\ \/ patient'.phase = "completed"
               \/ /\ patient'.phase = "follow_up"
                  /\ FollowUpMessagesLeft(patient') = FollowUpMessagesLeft(patient) - 1
                  /\ FollowUpMessagesLeft(patient') >= 1]_vars

\* a session without age and gender, over a dataset that cannot be read, was
\* completed by its last follow-up answer and not by the completion predicate
C35_Witness ==
    /\ dataset_file = "unreadable"
    /\ HandledIn("follow_up")
    /\ patient.age = None
    /\ patient.gender = None
    /\ patient.phase = "completed"
    /\ patient.current_question_index = MAX_FOLLOW_UP_QUESTIONS
    /\ summary_calls = 0

\* C36: send_notifications is invoked only with name and email set, symptoms
\* non-empty and at least one follow-up answer recorded, and never on a
\* message that arrived before the session was in follow_up.
C36_DispatchOnlyAfterFollowUp ==
    [][(summary_calls' # summary_calls \/ appointment_calls' # appointment_calls)
         => /\ TruthyStr(patient'.name)
            /\ TruthyStr(patient'.email)
            /\ Len(patient'.symptoms) > 0
            /\ RecordedAnswers(patient') >= 1
            /\ patient.phase \in {"follow_up", "completed"}
            /\ patient'.phase = "completed"]_vars

\* the first follow-up answer made the predicate true and both dispatches ran
C36_Witness ==
    /\ HandledIn("follow_up")
    /\ summary_calls = 1
    /\ appointment_calls = 1
    /\ RecordedAnswers(patient) = 1
    /\ patient.current_question_index = 1
    /\ patient.phase = "completed"

C38_FieldsWrittenInBasicInfoOnly ==
    [][patient.phase # "basic_info"
         => /\ patient'.name = patient.name
            /\ patient'.email = patient.email
            /\ patient'.age = patient.age
            /\ patient'.gender = patient.gender]_vars

\* a session that left basic_info without a gender went through symptoms and
\* follow_up to completed and still has none
C38_Witness ==
    /\ HandledIn("completed")
    /\ patient.phase = "completed"
    /\ patient.age = Some(30)
    /\ patient.gender = None
    /\ patient.name = Some("Jane")
    /\ summary_calls > 0

\* C31 (as claimed): conversation_history is append-only: every processed
\* message appends the patient's text, earlier entries are neither removed nor
\* altered, and after every processed message the last entry is the text
\* returned for that message.
C31_HistoryEndsWithOutboundText ==
    [][/\ Len(conversation_history') > Len(conversation_history)
       /\ SubSeq(conversation_history', 1, Len(conversation_history)) = conversation_history
       /\ conversation_history'[Len(conversation_history) + 1] = patient_entry(inbound'[1])
       /\ conversation_history'[Len(conversation_history')].speaker = "AI"
       /\ conversation_history'[Len(conversation_history')].text = response'[1]]_vars

====
